---- MODULE Spec2Model ----
(***************************************************************************)
(* Secure Notes App: the authorization checks of app/rbac.py, the note     *)
(* routes of app/notes/routes.py, the admin dashboard, registration, and   *)
(* the audit / error streams of app/audit.py.                              *)
(*                                                                         *)
(* Every request is a process: one action per database statement of its    *)
(* handler, so that requests interleave between statements (the storage is *)
(* atomic per statement only).  current_user is loaded once per request    *)
(* (Flask-Login caches it in the request context) by load_user / User.get. *)
(*                                                                         *)
(* The application starts over a database that already holds one user of   *)
(* each role and two notes; logging has been set up once.  Fields ok1,     *)
(* seen1, ok2, seen2, role2 and changed of a request record what its       *)
(* checks saw and whether its statement changed the store; the handlers    *)
(* never read them.                                                        *)
(***************************************************************************)
EXTENDS Integers, Sequences, FiniteSets, TLC

(* ---------------------------- bounds ----------------------------------- *)
MaxReqs == 1
MaxRoleChanges == 1
MaxTime == 1
MaxNotes == 3
MaxSeq == 3
MaxBurst == 7
MaxRace == 2
MaxApps == 2
MaxEpoch == 1

\* the requests in flight together
Reqs == 1..MaxReqs
\* the requests one client sends one after the other
SeqReqs == 1..MaxSeq
\* the POSTs one client address sends to the auth routes
BurstReqs == 1..MaxBurst
\* the edit and delete requests in flight together
RaceReqs == 1..MaxRace
NoteIds == 1..MaxNotes
Stamps == 0..MaxTime

(* ---------------------------- values ----------------------------------- *)
Roles == {"user", "moderator", "admin"}

\* form inputs: title and content as typed (sequences of characters)
Forms == { [title |-> <<" ", "b", " ">>, content |-> <<"c", " ">>] }
NoForm == [title |-> <<>>, content |-> <<>>]

\* what is typed into the username field: a free name with a blank after it, a stored
\* name, a name with a quote in it, and text that closes the VALUES list itself
Usernames == { <<"alice", " ">>, <<"bob">>, <<"o", "'", "b">>,
               <<"eve", "'", ",", "'", "bcrypt", "pw", "'", ",", "'", "admin", "'", ")", "--">> }

\* typed at login: a stored name, and text that adds a row to the SELECT
LoginNames == { <<"bob">>,
                <<"x", "'", "UNION SELECT", "3", ",", "'", "root", "'", ",",
                  "'", "bcrypt", "pw", "'", ",", "'", "admin", "'", "--">> }

Passwords == {"pw", "bad"}

\* the endpoints check_rate_limits limits, and their limits per minute
Endpoints == {"register", "login"}
RegisterLimit == 3
LoginLimit == 5
Limit(ep) == IF ep = "register" THEN RegisterLimit ELSE LoginLimit
\* Limiter(default_limits = [..., "50 per hour"]): the requests per hour to one route
HourLimit == 50

\* the anonymous current_user of Flask-Login
Anon == [id |-> 0, username |-> <<>>, role |-> "", auth |-> FALSE]

NoRow == [id |-> 0, title |-> <<>>, content |-> <<>>, user_id |-> 0, created_at |-> 0]

VARIABLES users, notes, audit, errlog, req, roleChanges, limiter, logfail, handlers

vars == <<users, notes, audit, errlog, req, roleChanges, limiter, logfail, handlers>>

(* ---------------------------- helpers ---------------------------------- *)
RECURSIVE LStrip(_)
LStrip(s) == IF s # <<>> /\ Head(s) = " " THEN LStrip(Tail(s)) ELSE s

RECURSIVE RStrip(_)
RStrip(s) == IF s # <<>> /\ s[Len(s)] = " " THEN RStrip(SubSeq(s, 1, Len(s) - 1)) ELSE s

\* str.strip()
Strip(s) == RStrip(LStrip(s))

RECURSIVE SetMax(_)
SetMax(S) == IF S = {} THEN 0
             ELSE LET x == CHOOSE y \in S : TRUE
                      m == SetMax(S \ {x})
                  IN IF x > m THEN x ELSE m

\* the row of note n as SELECT * returns it
Row(db, n) == [id |-> n, title |-> db[n].title, content |-> db[n].content,
               user_id |-> db[n].user_id, created_at |-> db[n].created_at]

\* SELECT * FROM notes WHERE id = ?  ... fetchone()
FetchNote(db, n) == IF n \in DOMAIN db THEN Row(db, n) ELSE NoRow

(* ---------------------------- auth/models.py --------------------------- *)
is_admin(u) == u.role = "admin"

is_moderator(u) == u.role \in {"moderator", "admin"}

\* User.get: the row of the session's user id, role defaulting to 'user'
UserGet(udb, sid) ==
    IF sid \in DOMAIN udb
    THEN [id |-> sid, username |-> udb[sid].username,
          role |-> IF udb[sid].role = "" THEN "user" ELSE udb[sid].role,
          auth |-> TRUE]
    ELSE Anon

(* ---------------------------- rbac.py ---------------------------------- *)
\* "ok", or the abort code it raises
check_note_ownership(u, n, allow_admin, db) ==
    IF n \notin DOMAIN db THEN "404"
    ELSE IF allow_admin /\ is_admin(u) THEN "ok"
    ELSE IF db[n].user_id = u.id THEN "ok"
    ELSE "403"

\* mutant: moderators edit any note, as admins do
can_edit_note_moderator(u, n, db) ==
    IF is_moderator(u) THEN n \in DOMAIN db
    ELSE check_note_ownership(u, n, FALSE, db) = "ok"

can_edit_note(u, n, db) ==
    IF is_admin(u) THEN n \in DOMAIN db
    ELSE check_note_ownership(u, n, FALSE, db) = "ok"

\* mutant: only admins delete any note
can_delete_note_admin_only(u, n, db) ==
    IF is_admin(u) THEN n \in DOMAIN db
    ELSE check_note_ownership(u, n, FALSE, db) = "ok"

can_delete_note(u, n, db) ==
    IF is_admin(u) \/ is_moderator(u) THEN n \in DOMAIN db
    ELSE check_note_ownership(u, n, FALSE, db) = "ok"

\* mutant: only admins view any note
can_view_note_admin_only(u, n, db) ==
    IF is_admin(u) THEN n \in DOMAIN db
    ELSE check_note_ownership(u, n, FALSE, db) = "ok"

can_view_note(u, n, db) ==
    IF is_moderator(u) \/ is_admin(u) THEN n \in DOMAIN db
    ELSE check_note_ownership(u, n, FALSE, db) = "ok"

(* ---------------------------- audit.py --------------------------------- *)
get_user_identifier(u) == IF u.auth THEN <<"uid", u.id>> ELSE <<"anonymous">>

\* logger.info / logger.warning / logger.error: each handler of the logger appends the
\* record to the file; when the write fails the handler takes the error
\* (Handler.handleError) and the call returns as usual
Emit(log, rec) == IF logfail THEN log ELSE log \o [i \in 1..handlers |-> rec]

\* one record of the audit stream; rid is <<n>> for a note, <<>> for 'all'
log_crud_event(r, u, action, rtype, rid, result) ==
    [req |-> r, user |-> get_user_identifier(u), action |-> action,
     rtype |-> rtype, rid |-> rid, result |-> result, username |-> <<>>,
     level |-> IF result = "DENIED" THEN "WARNING" ELSE "INFO"]

log_auth_event(r, u, action, result, username) ==
    [req |-> r, user |-> get_user_identifier(u), action |-> action,
     rtype |-> "AUTH", rid |-> <<>>, result |-> result, username |-> username,
     level |-> "INFO"]

\* one record of the error stream
log_error(r, u, etype, rid) ==
    [req |-> r, user |-> get_user_identifier(u), etype |-> etype, rid |-> rid]

\* mutant: the denied branch logs without looking at the note
LogIfNote_always(note, log, rec) == Emit(log, rec)

\* the denied branch's "if note:" : the record is written only for a note that exists
LogIfNote(note, log, rec) == IF note # NoRow THEN Emit(log, rec) ELSE log

(* ---------------------------- requests --------------------------------- *)
\* a request slot that has not been used yet
Idle == [kind |-> "none", post |-> FALSE, pc |-> "idle", sid |-> 0, user |-> Anon,
         nid |-> 0, form |-> NoForm, username |-> <<>>, status |-> 0,
         row |-> NoRow, body |-> <<>>, ubody |-> {},
         ok1 |-> FALSE, seen1 |-> NoRow, ok2 |-> FALSE, seen2 |-> NoRow,
         role2 |-> "", changed |-> FALSE, newid |-> 0,
         password |-> "", urow |-> [id |-> 0, username |-> <<>>, password |-> <<>>, role |-> ""],
         login |-> 0, logout |-> FALSE, epoch |-> 0]

\* the session cookies a request can carry: none, or any stored user's
Sessions == {0} \cup DOMAIN users

\* slot r is the next one to be used
CanBegin(r) == /\ req[r].pc = "idle"
               /\ \A q \in DOMAIN req : q < r => req[q].pc # "idle"

\* the session cookie the client holds after the response to rq
SessionAfter(rq) == IF rq.login # 0 THEN rq.login
                    ELSE IF rq.logout THEN 0 ELSE rq.sid

\* slot r of a client that sends its requests one after the other, starting without
\* a session: the requests before r are answered, and r carries the cookie they left
Cookie(r) == IF r = 1 THEN 0 ELSE SessionAfter(req[r - 1])

InTurn(r) == \A q \in DOMAIN req : q < r => req[q].pc = "done"

\* @login_required: an unauthenticated requester is redirected to the login view
LoginRequired(base, next) ==
    IF base.user.auth THEN [base EXCEPT !.pc = next]
    ELSE [base EXCEPT !.pc = "done", !.status = 302]

Finish(rq, status) == [rq EXCEPT !.pc = "done", !.status = status]

TypeOK ==
    /\ DOMAIN users \subseteq 1..(3 + Cardinality(DOMAIN req))
    /\ \A u \in DOMAIN users : users[u].role \in Roles
    /\ DOMAIN notes \subseteq 1..(MaxNotes + MaxReqs)
    /\ \A e \in Endpoints : /\ limiter[e].count \in 0..Limit(e)
                             /\ limiter[e].epoch \in 0..MaxEpoch
                             /\ limiter[e].hour \in 0..HourLimit
    /\ logfail \in BOOLEAN
    /\ handlers \in 1..MaxApps
    /\ \A n \in DOMAIN notes : notes[n].user_id \in DOMAIN users
    /\ \A r \in DOMAIN req : req[r].pc \in {"idle", "done"} \/ req[r].status = 0
    /\ roleChanges \in 0..MaxRoleChanges

Init ==
    /\ users = [u \in 1..3 |->
                  [username |-> CASE u = 1 -> <<"bob">> [] u = 2 -> <<"mod">> [] OTHER -> <<"root">>,
                   password |-> <<"bcrypt", "pw">>,
                   role |-> CASE u = 1 -> "user" [] u = 2 -> "moderator" [] OTHER -> "admin"]]
    /\ \E own \in 1..3 : \E st \in {t \in Stamps : t <= 1} :
          notes = [n \in 1..2 |-> [title |-> <<"a">>, content |-> <<"a">>,
                                   user_id |-> IF n = 1 THEN own ELSE 1,
                                   created_at |-> IF n = 1 THEN 0 ELSE st]]
    /\ audit = <<>>
    /\ errlog = <<>>
    /\ req = [r \in Reqs |-> Idle]
    /\ roleChanges = 0
    /\ limiter = [e \in Endpoints |-> [count |-> 0, epoch |-> 0, hour |-> 0]]
    /\ logfail = FALSE
    /\ handlers = 1

(* ---------------------------- notes/routes.py -------------------------- *)
\* all orders of the rows S (the order SQL leaves open among equal keys)
RECURSIVE Perms(_)
Perms(S) == IF S = {} THEN {<<>>}
            ELSE UNION {{<<x>> \o p : p \in Perms(S \ {x})} : x \in S}

\* mutant: ORDER BY created_at ASC
OrderByCreatedDesc_asc(S) ==
    {p \in Perms(S) : \A i \in 1..Len(p) : \A j \in 1..Len(p) :
                          i < j => p[i].created_at <= p[j].created_at}

\* ORDER BY created_at DESC
OrderByCreatedDesc(S) ==
    {p \in Perms(S) : \A i \in 1..Len(p) : \A j \in 1..Len(p) :
                          i < j => p[i].created_at >= p[j].created_at}

\* mutant: the dashboard without the role filter
DashboardRows_all(u, db) == {Row(db, n) : n \in DOMAIN db}

\* the rows notes_home selects for current_user u
DashboardRows(u, db) ==
    IF is_admin(u) \/ is_moderator(u)
    THEN {Row(db, n) : n \in DOMAIN db}
    ELSE {Row(db, n) : n \in {m \in DOMAIN db : db[m].user_id = u.id}}

\* GET /notes/ : @login_required
BeginNotesHome(r, sid) ==
    /\ CanBegin(r)
    /\ req' = [req EXCEPT ![r] = LoginRequired(
                  [Idle EXCEPT !.kind = "notes_home", !.sid = sid,
                               !.user = UserGet(users, sid)], "home_query")]
    /\ UNCHANGED <<users, notes, audit, errlog, roleChanges, limiter, logfail, handlers>>

\* notes_home: the SELECT, the READ_DASHBOARD record, the rendered list
NotesHome(r) ==
    /\ req[r].pc = "home_query"
    /\ \E rows \in OrderByCreatedDesc(DashboardRows(req[r].user, notes)) :
          req' = [req EXCEPT ![r] = Finish([@ EXCEPT !.body = rows], 200)]
    /\ audit' = Emit(audit, log_crud_event(r, req[r].user, "READ", "DASHBOARD", <<>>, "SUCCESS"))
    /\ UNCHANGED <<users, notes, errlog, roleChanges, limiter, logfail, handlers>>

\* the created_at a new row gets from the schema: the time of the insert, which is
\* not before the time of any stored row
CreatedAtDefault(db) ==
    {t \in Stamps : t >= SetMax({db[n].created_at : n \in DOMAIN db})}

\* the id the notes table gives a new row: above the id of every row it has held,
\* those of Init and those the create requests inserted, so that the id of a
\* deleted note is not given again
NewNoteId ==
    SetMax(DOMAIN notes \cup {n \in NoteIds : n <= 2}
           \cup {req[r].newid : r \in {q \in DOMAIN req : req[q].kind = "create_note"}}) + 1

\* /notes/create : @login_required; GET or an invalid form renders the form
BeginCreate(r, sid, post, form) ==
    /\ CanBegin(r)
    /\ LET base == [Idle EXCEPT !.kind = "create_note", !.sid = sid, !.post = post,
                                !.form = form, !.user = UserGet(users, sid)]
       IN req' = [req EXCEPT ![r] =
                    IF base.user.auth /\ ~post THEN Finish(base, 200)
                    ELSE LoginRequired(base, "create_insert")]
    /\ UNCHANGED <<users, notes, audit, errlog, roleChanges, limiter, logfail, handlers>>

\* create_note: INSERT INTO notes (title, content, user_id) ... commit
CreateInsert(r) ==
    /\ req[r].pc = "create_insert"
    /\ NewNoteId <= MaxNotes
    /\ LET id == NewNoteId
       IN \E t \in CreatedAtDefault(notes) :
            /\ notes' = [n \in DOMAIN notes \cup {id} |->
                           IF n = id
                           THEN [title |-> Strip(req[r].form.title),
                                 content |-> Strip(req[r].form.content),
                                 user_id |-> req[r].user.id, created_at |-> t]
                           ELSE notes[n]]
            /\ req' = [req EXCEPT ![r] = [@ EXCEPT !.pc = "create_log", !.newid = id,
                                                   !.changed = TRUE]]
    /\ UNCHANGED <<users, audit, errlog, roleChanges, limiter, logfail, handlers>>

\* mutant: the redirect without the CREATE_NOTE record
CreateLog_silent(r) ==
    /\ req[r].pc = "create_log"
    /\ req' = [req EXCEPT ![r] = Finish(@, 302)]
    /\ UNCHANGED <<users, notes, audit, errlog, roleChanges, limiter, logfail, handlers>>

\* create_note: last_insert_rowid(), the CREATE_NOTE record, the redirect
CreateLog(r) ==
    /\ req[r].pc = "create_log"
    /\ audit' = Emit(audit, log_crud_event(r, req[r].user, "CREATE", "NOTE",
                                            <<req[r].newid>>, "SUCCESS"))
    /\ req' = [req EXCEPT ![r] = Finish(@, 302)]
    /\ UNCHANGED <<users, notes, errlog, roleChanges, limiter, logfail, handlers>>


\* /notes/view/<n> : @login_required, current_user loaded
BeginView(r, sid, n) ==
    /\ CanBegin(r)
    /\ req' = [req EXCEPT ![r] = LoginRequired(
                  [Idle EXCEPT !.kind = "view_note", !.sid = sid, !.nid = n,
                                      !.user = UserGet(users, sid)],
                  "view_check")]
    /\ UNCHANGED <<users, notes, audit, errlog, roleChanges, limiter, logfail, handlers>>

\* mutant: the view is allowed for every stored note
ViewCheck_open(r) ==
    /\ req[r].pc = "view_check"
    /\ LET ok == req[r].nid \in DOMAIN notes
       IN req' = [req EXCEPT ![r] = [@ EXCEPT !.ok1 = ok, !.seen1 = FetchNote(notes, req[r].nid),
                                            !.pc = IF ok THEN "view_read" ELSE "view_denied"]]
    /\ UNCHANGED <<users, notes, audit, errlog, roleChanges, limiter, logfail, handlers>>

\* view_note: the first can_view_note(note_id)
ViewCheck(r) ==
    /\ req[r].pc = "view_check"
    /\ LET ok == can_view_note(req[r].user, req[r].nid, notes)
       IN req' = [req EXCEPT ![r] = [@ EXCEPT !.ok1 = ok, !.seen1 = FetchNote(notes, req[r].nid),
                                            !.pc = IF ok THEN "view_read" ELSE "view_denied"]]
    /\ UNCHANGED <<users, notes, audit, errlog, roleChanges, limiter, logfail, handlers>>

\* mutant: the error of a failed write reaches the view: the request ends in 500
ViewDenied_raises(r) ==
    /\ req[r].pc = "view_denied"
    /\ LET note == FetchNote(notes, req[r].nid)
       IN /\ audit' = LogIfNote(note, audit, log_crud_event(r, req[r].user, "READ", "NOTE",
                                                            <<req[r].nid>>, "DENIED"))
          /\ errlog' = LogIfNote(note, errlog, log_error(r, req[r].user, "403", <<req[r].nid>>))
          /\ req' = [req EXCEPT ![r] = Finish([@ EXCEPT !.row = note],
                                              IF logfail /\ note # NoRow THEN 500 ELSE 403)]
    /\ UNCHANGED <<users, notes, roleChanges, limiter, logfail, handlers>>

\* view_note: the check failed: SELECT the note, log if it exists, abort(403)
ViewDenied(r) ==
    /\ req[r].pc = "view_denied"
    /\ LET note == FetchNote(notes, req[r].nid)
       IN /\ audit' = LogIfNote(note, audit, log_crud_event(r, req[r].user, "READ", "NOTE",
                                                            <<req[r].nid>>, "DENIED"))
          /\ errlog' = LogIfNote(note, errlog, log_error(r, req[r].user, "403", <<req[r].nid>>))
          /\ req' = [req EXCEPT ![r] = Finish([@ EXCEPT !.row = note], 403)]
    /\ UNCHANGED <<users, notes, roleChanges, limiter, logfail, handlers>>

\* view_note: the check passed: SELECT the note, 404 or the READ_NOTE record and the page
ViewRead(r) ==
    /\ req[r].pc = "view_read"
    /\ LET note == FetchNote(notes, req[r].nid)
       IN IF note = NoRow
          THEN /\ req' = [req EXCEPT ![r] = Finish(@, 404)]
               /\ audit' = audit
          ELSE /\ req' = [req EXCEPT ![r] = Finish([@ EXCEPT !.row = note, !.body = <<note>>], 200)]
               /\ audit' = Emit(audit, log_crud_event(r, req[r].user, "READ", "NOTE",
                                                       <<req[r].nid>>, "SUCCESS"))
    /\ UNCHANGED <<users, notes, errlog, roleChanges, limiter, logfail, handlers>>

\* /notes/edit/<n> : @login_required, current_user loaded
BeginEdit(r, sid, n, post, form) ==
    /\ CanBegin(r)
    /\ req' = [req EXCEPT ![r] = LoginRequired(
                  [Idle EXCEPT !.kind = "edit_note", !.sid = sid, !.nid = n, !.post = post,
                                      !.form = form, !.user = UserGet(users, sid)],
                  "edit_check")]
    /\ UNCHANGED <<users, notes, audit, errlog, roleChanges, limiter, logfail, handlers>>

\* edit_note: the first can_edit_note(note_id)
EditCheck(r) ==
    /\ req[r].pc = "edit_check"
    /\ LET ok == can_edit_note(req[r].user, req[r].nid, notes)
       IN req' = [req EXCEPT ![r] = [@ EXCEPT !.ok1 = ok, !.seen1 = FetchNote(notes, req[r].nid),
                                            !.pc = IF ok THEN "edit_read" ELSE "edit_denied"]]
    /\ UNCHANGED <<users, notes, audit, errlog, roleChanges, limiter, logfail, handlers>>

\* mutant: the denied branch logs and, without the abort, goes on to the update
EditDenied_writes(r) ==
    /\ req[r].pc = "edit_denied"
    /\ LET note == FetchNote(notes, req[r].nid)
       IN /\ audit' = LogIfNote(note, audit, log_crud_event(r, req[r].user, "UPDATE", "NOTE",
                                                            <<req[r].nid>>, "DENIED"))
          /\ errlog' = LogIfNote(note, errlog, log_error(r, req[r].user, "403", <<req[r].nid>>))
          /\ req' = [req EXCEPT ![r] = Finish([@ EXCEPT !.row = note], 403)]
          /\ notes' = IF note # NoRow /\ req[r].post
                      THEN [notes EXCEPT ![req[r].nid].title = Strip(req[r].form.title)]
                      ELSE notes
    /\ UNCHANGED <<users, roleChanges, limiter, logfail, handlers>>

\* edit_note: the check failed: SELECT the note, log if it exists, abort(403)
EditDenied(r) ==
    /\ req[r].pc = "edit_denied"
    /\ LET note == FetchNote(notes, req[r].nid)
       IN /\ audit' = LogIfNote(note, audit, log_crud_event(r, req[r].user, "UPDATE", "NOTE",
                                                            <<req[r].nid>>, "DENIED"))
          /\ errlog' = LogIfNote(note, errlog, log_error(r, req[r].user, "403", <<req[r].nid>>))
          /\ req' = [req EXCEPT ![r] = Finish([@ EXCEPT !.row = note], 403)]
    /\ UNCHANGED <<users, notes, roleChanges, limiter, logfail, handlers>>

\* edit_note: the check passed: SELECT the note; 404, the form (GET), or go on (POST)
EditRead(r) ==
    /\ req[r].pc = "edit_read"
    /\ LET note == FetchNote(notes, req[r].nid)
       IN req' = [req EXCEPT ![r] =
                    IF note = NoRow THEN Finish(@, 404)
                    ELSE IF req[r].post THEN [@ EXCEPT !.row = note, !.pc = "edit_check2"]
                    ELSE Finish([@ EXCEPT !.row = note, !.body = <<note>>], 200)]
    /\ UNCHANGED <<users, notes, audit, errlog, roleChanges, limiter, logfail, handlers>>

\* edit_note: the second can_edit_note(note_id), with the request's current_user
EditCheck2(r) ==
    /\ req[r].pc = "edit_check2"
    /\ LET ok == can_edit_note(req[r].user, req[r].nid, notes)
           rq == [req[r] EXCEPT !.ok2 = ok, !.seen2 = FetchNote(notes, req[r].nid),
                                !.role2 = users[req[r].user.id].role]
       IN req' = [req EXCEPT ![r] = IF ok THEN [rq EXCEPT !.pc = "edit_update"]
                                          ELSE Finish(rq, 403)]
    /\ UNCHANGED <<users, notes, audit, errlog, roleChanges, limiter, logfail, handlers>>

\* mutant: the UPDATE also sets user_id to the editor
EditUpdate_owner(r) ==
    /\ req[r].pc = "edit_update"
    /\ LET n == req[r].nid
       IN /\ notes' = IF n \in DOMAIN notes
                      THEN [notes EXCEPT ![n].title = Strip(req[r].form.title),
                                         ![n].content = Strip(req[r].form.content),
                                         ![n].user_id = req[r].user.id]
                      ELSE notes
          /\ req' = [req EXCEPT ![r] = [@ EXCEPT !.pc = "edit_log",
                                                 !.changed = (n \in DOMAIN notes)]]
    /\ UNCHANGED <<users, audit, errlog, roleChanges, limiter, logfail, handlers>>

\* mutant: the UPDATE stores the submitted text as typed, without strip()
EditUpdate_raw(r) ==
    /\ req[r].pc = "edit_update"
    /\ LET n == req[r].nid
       IN /\ notes' = IF n \in DOMAIN notes
                      THEN [notes EXCEPT ![n].title = req[r].form.title,
                                         ![n].content = req[r].form.content]
                      ELSE notes
          /\ req' = [req EXCEPT ![r] = [@ EXCEPT !.pc = "edit_log",
                                                 !.changed = (n \in DOMAIN notes)]]
    /\ UNCHANGED <<users, audit, errlog, roleChanges, limiter, logfail, handlers>>

\* edit_note: UPDATE notes SET title = ?, content = ? WHERE id = ? ... commit
EditUpdate(r) ==
    /\ req[r].pc = "edit_update"
    /\ LET n == req[r].nid
       IN /\ notes' = IF n \in DOMAIN notes
                      THEN [notes EXCEPT ![n].title = Strip(req[r].form.title),
                                         ![n].content = Strip(req[r].form.content)]
                      ELSE notes
          /\ req' = [req EXCEPT ![r] = [@ EXCEPT !.pc = "edit_log",
                                                 !.changed = (n \in DOMAIN notes)]]
    /\ UNCHANGED <<users, audit, errlog, roleChanges, limiter, logfail, handlers>>

\* edit_note: the UPDATE_NOTE record and the redirect
EditLog(r) ==
    /\ req[r].pc = "edit_log"
    /\ audit' = Emit(audit, log_crud_event(r, req[r].user, "UPDATE", "NOTE",
                                            <<req[r].nid>>, "SUCCESS"))
    /\ req' = [req EXCEPT ![r] = Finish(@, 302)]
    /\ UNCHANGED <<users, notes, errlog, roleChanges, limiter, logfail, handlers>>

\* /notes/delete/<n> : @login_required, current_user loaded
BeginDelete(r, sid, n) ==
    /\ CanBegin(r)
    /\ req' = [req EXCEPT ![r] = LoginRequired(
                  [Idle EXCEPT !.kind = "delete_note", !.sid = sid, !.nid = n,
                                      !.user = UserGet(users, sid)],
                  "delete_check")]
    /\ UNCHANGED <<users, notes, audit, errlog, roleChanges, limiter, logfail, handlers>>

\* delete_note: the first can_delete_note(note_id)
DeleteCheck(r) ==
    /\ req[r].pc = "delete_check"
    /\ LET ok == can_delete_note(req[r].user, req[r].nid, notes)
       IN req' = [req EXCEPT ![r] = [@ EXCEPT !.ok1 = ok, !.seen1 = FetchNote(notes, req[r].nid),
                                            !.pc = IF ok THEN "delete_read" ELSE "delete_denied"]]
    /\ UNCHANGED <<users, notes, audit, errlog, roleChanges, limiter, logfail, handlers>>

\* delete_note: the check failed: SELECT the note, log if it exists, abort(403)
DeleteDenied(r) ==
    /\ req[r].pc = "delete_denied"
    /\ LET note == FetchNote(notes, req[r].nid)
       IN /\ audit' = LogIfNote(note, audit, log_crud_event(r, req[r].user, "DELETE", "NOTE",
                                                            <<req[r].nid>>, "DENIED"))
          /\ errlog' = LogIfNote(note, errlog, log_error(r, req[r].user, "403", <<req[r].nid>>))
          /\ req' = [req EXCEPT ![r] = Finish([@ EXCEPT !.row = note], 403)]
    /\ UNCHANGED <<users, notes, roleChanges, limiter, logfail, handlers>>

\* delete_note: the check passed: SELECT the note; 404 or go on
DeleteRead(r) ==
    /\ req[r].pc = "delete_read"
    /\ LET note == FetchNote(notes, req[r].nid)
       IN req' = [req EXCEPT ![r] =
                    IF note = NoRow THEN Finish(@, 404)
                    ELSE [@ EXCEPT !.row = note, !.pc = "delete_check2"]]
    /\ UNCHANGED <<users, notes, audit, errlog, roleChanges, limiter, logfail, handlers>>

\* delete_note: the second can_delete_note(note_id), with the request's current_user
DeleteCheck2(r) ==
    /\ req[r].pc = "delete_check2"
    /\ LET ok == can_delete_note(req[r].user, req[r].nid, notes)
           rq == [req[r] EXCEPT !.ok2 = ok, !.seen2 = FetchNote(notes, req[r].nid),
                                !.role2 = users[req[r].user.id].role]
       IN req' = [req EXCEPT ![r] = IF ok THEN [rq EXCEPT !.pc = "delete_delete"]
                                          ELSE Finish(rq, 403)]
    /\ UNCHANGED <<users, notes, audit, errlog, roleChanges, limiter, logfail, handlers>>

\* delete_note: DELETE FROM notes WHERE id = ? ... commit
DeleteDelete(r) ==
    /\ req[r].pc = "delete_delete"
    /\ LET n == req[r].nid
       IN /\ notes' = [m \in DOMAIN notes \ {n} |-> notes[m]]
          /\ req' = [req EXCEPT ![r] = [@ EXCEPT !.pc = "delete_log",
                                                 !.changed = (n \in DOMAIN notes)]]
    /\ UNCHANGED <<users, audit, errlog, roleChanges, limiter, logfail, handlers>>

\* delete_note: the DELETE_NOTE record and the redirect
DeleteLog(r) ==
    /\ req[r].pc = "delete_log"
    /\ audit' = Emit(audit, log_crud_event(r, req[r].user, "DELETE", "NOTE",
                                            <<req[r].nid>>, "SUCCESS"))
    /\ req' = [req EXCEPT ![r] = Finish(@, 302)]
    /\ UNCHANGED <<users, notes, errlog, roleChanges, limiter, logfail, handlers>>

\* mutant: admin_required lets a moderator through
BeginAdmin_moderator(r, sid) ==
    /\ CanBegin(r)
    /\ LET base == [Idle EXCEPT !.kind = "admin_home", !.sid = sid,
                                !.user = UserGet(users, sid)]
       IN req' = [req EXCEPT ![r] =
                    IF base.user.auth /\ ~is_admin(base.user) /\ ~is_moderator(base.user)
                    THEN Finish(base, 403)
                    ELSE LoginRequired(base, "admin_users")]
    /\ UNCHANGED <<users, notes, audit, errlog, roleChanges, limiter, logfail, handlers>>

(* ---------------------------- admin/routes.py -------------------------- *)
\* GET /admin/ : @admin_required over @login_required; abort(403) unless admin
BeginAdmin(r, sid) ==
    /\ CanBegin(r)
    /\ LET base == [Idle EXCEPT !.kind = "admin_home", !.sid = sid,
                                !.user = UserGet(users, sid)]
       IN req' = [req EXCEPT ![r] =
                    IF base.user.auth /\ ~is_admin(base.user) THEN Finish(base, 403)
                    ELSE LoginRequired(base, "admin_users")]
    /\ UNCHANGED <<users, notes, audit, errlog, roleChanges, limiter, logfail, handlers>>

\* admin_home: SELECT * FROM users ORDER BY id
AdminUsers(r) ==
    /\ req[r].pc = "admin_users"
    /\ req' = [req EXCEPT ![r] = [@ EXCEPT !.pc = "admin_notes",
                   !.ubody = {[id |-> u, username |-> users[u].username,
                               role |-> users[u].role] : u \in DOMAIN users}]]
    /\ UNCHANGED <<users, notes, audit, errlog, roleChanges, limiter, logfail, handlers>>

\* admin_home: the notes query, the READ_ADMIN_DASHBOARD record, the page
AdminNotes(r) ==
    /\ req[r].pc = "admin_notes"
    /\ \E rows \in OrderByCreatedDesc({Row(notes, n) : n \in DOMAIN notes}) :
          req' = [req EXCEPT ![r] = Finish([@ EXCEPT !.body = rows], 200)]
    /\ audit' = Emit(audit, log_crud_event(r, req[r].user, "READ", "ADMIN_DASHBOARD",
                                            <<>>, "SUCCESS"))
    /\ UNCHANGED <<users, notes, errlog, roleChanges, limiter, logfail, handlers>>

(* ---------------------------- SQL text --------------------------------- *)
\* The queries auth/routes.py builds with f-strings are text: a sequence of pieces in
\* which "'" is the quote character.  What the user typed goes in as it is.

\* the first quote of s at or after position i, 0 when there is none
RECURSIVE QuoteAt(_, _)
QuoteAt(s, i) == IF i > Len(s) THEN 0
                 ELSE IF s[i] = "'" THEN i ELSE QuoteAt(s, i + 1)

NoLit == [ok |-> FALSE, val |-> <<>>, rest |-> <<>>]

\* a string literal at the head of s: its value and the text after it
Literal(s) ==
    IF s = <<>> \/ Head(s) # "'" \/ QuoteAt(s, 2) = 0 THEN NoLit
    ELSE [ok |-> TRUE, val |-> SubSeq(s, 2, QuoteAt(s, 2) - 1),
          rest |-> SubSeq(s, QuoteAt(s, 2) + 1, Len(s))]

Comma(s) == s # <<>> /\ Head(s) = ","

\* three literals separated by commas at the head of s
ValuesList(s) ==
    LET a == Literal(s)
        b == IF a.ok /\ Comma(a.rest) THEN Literal(Tail(a.rest)) ELSE NoLit
        c == IF b.ok /\ Comma(b.rest) THEN Literal(Tail(b.rest)) ELSE NoLit
    IN [ok |-> c.ok, vals |-> <<a.val, b.val, c.val>>, rest |-> c.rest]

\* the statement ends here, or the rest of the text is a comment
EndOfStatement(s) == s = <<>> \/ Head(s) = "--"

\* the text of the role column as the model's role value
RoleText(val) == IF val = <<>> THEN ""
                 ELSE IF Len(val) = 1 THEN val[1] ELSE "other"

IdOf(piece) == CASE piece = "1" -> 1 [] piece = "2" -> 2 [] piece = "3" -> 3 [] OTHER -> 0

NoUserRow == [id |-> 0, username |-> <<>>, password |-> <<>>, role |-> ""]

UserRow(udb, u) == [id |-> u, username |-> udb[u].username,
                    password |-> udb[u].password, role |-> udb[u].role]

\* register: f"INSERT INTO users (username, password, role) VALUES ('{username}', '{hash}', 'user')"
InsertUserQuery(username, hash) ==
    <<"INSERT INTO users (username, password, role) VALUES (", "'">> \o username
       \o <<"'", ",", "'">> \o hash \o <<"'", ",", "'", "user", "'", ")">>

\* db.execute of that text: the row it inserts, or a syntax error
ExecInsertUser(q) ==
    LET v == ValuesList(Tail(q))
    IN IF v.ok /\ v.rest # <<>> /\ Head(v.rest) = ")" /\ EndOfStatement(Tail(v.rest))
       THEN [ok |-> TRUE, row |-> [id |-> 0, username |-> v.vals[1], password |-> v.vals[2],
                                   role |-> RoleText(v.vals[3])]]
       ELSE [ok |-> FALSE, row |-> NoUserRow]

\* login: f"SELECT * FROM users WHERE username = '{username}'"
SelectUserQuery(username) ==
    <<"SELECT * FROM users WHERE username =", "'">> \o username \o <<"'">>

\* db.execute of that text: the rows fetchone() may return first, or a syntax error
ExecSelectUser(q, udb) ==
    LET l == Literal(Tail(q))
        match == {UserRow(udb, u) : u \in {x \in DOMAIN udb : udb[x].username = l.val}}
        t == l.rest
        v == IF Len(t) >= 3 /\ t[3] = "," THEN ValuesList(SubSeq(t, 4, Len(t))) ELSE NoLit
    IN IF ~l.ok THEN [ok |-> FALSE, rows |-> {}]
       ELSE IF EndOfStatement(t) THEN [ok |-> TRUE, rows |-> match]
       ELSE IF Head(t) = "UNION SELECT" /\ v.ok /\ EndOfStatement(v.rest)
       THEN [ok |-> TRUE,
             rows |-> match \cup {[id |-> IdOf(t[2]), username |-> v.vals[1],
                                   password |-> v.vals[2], role |-> RoleText(v.vals[3])]}]
       ELSE [ok |-> FALSE, rows |-> {}]

\* bcrypt.hashpw(password, gensalt()), decoded
Hash(pw) == <<"bcrypt", pw>>

\* bcrypt.checkpw(password, stored); a stored text that is no hash raises ValueError
\* and login takes it as a failed check
CheckPw(pw, stored) == IF Len(stored) = 2 /\ stored[1] = "bcrypt" THEN stored[2] = pw
                       ELSE FALSE

(* ---------------------------- the rate limiter ------------------------- *)
\* limiter.limit(limit_str)(_check)(): one hit on the client address's counter for the
\* endpoint in the running window; over when the window's limit is already used up
Hit(lim, ep) ==
    [over |-> lim[ep].count >= Limit(ep),
     store |-> [lim EXCEPT ![ep].count = IF @ >= Limit(ep) THEN @ ELSE @ + 1]]

\* the Limiter's own before_request, which runs before the blueprint's: one hit on the
\* client address's counter of requests to the route in the running hour; over when
\* the default limit is used up
DefaultHit(lim, ep) ==
    [over |-> lim[ep].hour >= HourLimit,
     store |-> [lim EXCEPT ![ep].hour = IF @ >= HourLimit THEN @ ELSE @ + 1]]

(* ---------------------------- auth/routes.py --------------------------- *)
\* RegistrationForm: the username must not be stored yet
UsernameTaken(udb, name) == \E u \in DOMAIN udb : udb[u].username = name

\* /auth/register : the default limit (the 429 handler renders, nothing is logged);
\* check_rate_limits on POST; then GET, or a form that does not validate (username
\* taken), renders the form
BeginRegister(r, sid, post, name) ==
    /\ CanBegin(r)
    /\ LET base == [Idle EXCEPT !.kind = "register", !.sid = sid, !.post = post,
                                !.username = name, !.password = IF post THEN "pw" ELSE "",
                                !.epoch = limiter["register"].epoch]
           d == DefaultHit(limiter, "register")
           h == Hit(d.store, "register")
       IN IF d.over
          THEN /\ errlog' = errlog
               /\ limiter' = d.store
               /\ req' = [req EXCEPT ![r] = Finish(base, 429)]
          ELSE IF post /\ h.over
          THEN /\ errlog' = Emit(errlog, log_error(r, UserGet(users, sid), "RATE_LIMIT", <<>>))
               /\ limiter' = h.store
               /\ req' = [req EXCEPT ![r] = Finish([base EXCEPT !.user = UserGet(users, sid)], 429)]
          ELSE /\ errlog' = errlog
               /\ limiter' = IF post THEN h.store ELSE d.store
               /\ req' = [req EXCEPT ![r] =
                            IF ~post \/ UsernameTaken(users, Strip(name)) THEN Finish(base, 200)
                            ELSE [base EXCEPT !.pc = "register_insert"]]
    /\ UNCHANGED <<users, notes, audit, roleChanges, logfail, handlers>>

\* register: strip, hash, db.execute(insert_query), commit; a statement that does not
\* parse, or a username stored meanwhile, raises and the request ends in 500
RegisterInsert(r) ==
    /\ req[r].pc = "register_insert"
    /\ LET ins == ExecInsertUser(InsertUserQuery(Strip(req[r].username), Hash(req[r].password)))
           id == SetMax(DOMAIN users) + 1
       IN IF ~ins.ok \/ UsernameTaken(users, ins.row.username)
          THEN /\ req' = [req EXCEPT ![r] = Finish(@, 500)]
               /\ users' = users
          ELSE /\ users' = [u \in DOMAIN users \cup {id} |->
                               IF u = id
                               THEN [username |-> ins.row.username,
                                     password |-> ins.row.password, role |-> ins.row.role]
                               ELSE users[u]]
               /\ req' = [req EXCEPT ![r] = [@ EXCEPT !.pc = "register_log", !.newid = id,
                                                      !.changed = TRUE]]
    /\ UNCHANGED <<notes, audit, errlog, roleChanges, limiter, logfail, handlers>>

\* register: the REGISTER record (current_user is loaded here, on first use), the redirect
RegisterLog(r) ==
    /\ req[r].pc = "register_log"
    /\ LET u == UserGet(users, req[r].sid)
       IN /\ audit' = Emit(audit, log_auth_event(r, u, "REGISTER", "SUCCESS", Strip(req[r].username)))
          /\ req' = [req EXCEPT ![r] = Finish([@ EXCEPT !.user = u], 302)]
    /\ UNCHANGED <<users, notes, errlog, roleChanges, limiter, logfail, handlers>>

\* /auth/login : the default limit (the 429 handler renders, nothing is logged);
\* check_rate_limits on POST; GET renders the form
BeginLogin(r, sid, post, name, pw) ==
    /\ CanBegin(r)
    /\ LET base == [Idle EXCEPT !.kind = "login", !.sid = sid, !.post = post,
                                !.username = name, !.password = pw,
                                !.epoch = limiter["login"].epoch]
           d == DefaultHit(limiter, "login")
           h == Hit(d.store, "login")
       IN IF d.over
          THEN /\ errlog' = errlog
               /\ limiter' = d.store
               /\ req' = [req EXCEPT ![r] = Finish(base, 429)]
          ELSE IF post /\ h.over
          THEN /\ errlog' = Emit(errlog, log_error(r, UserGet(users, sid), "RATE_LIMIT", <<>>))
               /\ limiter' = h.store
               /\ req' = [req EXCEPT ![r] = Finish([base EXCEPT !.user = UserGet(users, sid)], 429)]
          ELSE /\ errlog' = errlog
               /\ limiter' = IF post THEN h.store ELSE d.store
               /\ req' = [req EXCEPT ![r] = IF ~post THEN Finish(base, 200)
                                            ELSE [base EXCEPT !.pc = "login_select"]]
    /\ UNCHANGED <<users, notes, audit, roleChanges, logfail, handlers>>

\* login: strip, db.execute(query).fetchone(), checkpw; a statement that does not
\* parse raises and the request ends in 500
LoginSelect(r) ==
    /\ req[r].pc = "login_select"
    /\ LET sel == ExecSelectUser(SelectUserQuery(Strip(req[r].username)), users)
       IN IF ~sel.ok THEN req' = [req EXCEPT ![r] = Finish(@, 500)]
          ELSE IF sel.rows = {} THEN req' = [req EXCEPT ![r] = [@ EXCEPT !.pc = "login_finish"]]
          ELSE \E row \in sel.rows :
                  req' = [req EXCEPT ![r] =
                            [@ EXCEPT !.pc = "login_finish",
                                      !.urow = IF CheckPw(req[r].password, row.password)
                                               THEN row ELSE NoUserRow]]
    /\ UNCHANGED <<users, notes, audit, errlog, roleChanges, limiter, logfail, handlers>>

\* login: no user: the LOGIN FAILURE and AUTH_FAILURE records and the form again;
\* a user: login_user, the LOGIN SUCCESS record, the redirect to the dashboard
LoginFinish(r) ==
    /\ req[r].pc = "login_finish"
    /\ IF req[r].urow = NoUserRow
       THEN LET u == UserGet(users, req[r].sid)
            IN /\ audit' = Emit(audit, log_auth_event(r, u, "LOGIN", "FAILURE", Strip(req[r].username)))
               /\ errlog' = Emit(errlog, log_error(r, u, "AUTH_FAILURE", <<>>))
               /\ req' = [req EXCEPT ![r] = Finish([@ EXCEPT !.user = u], 200)]
       ELSE LET u == [id |-> req[r].urow.id, username |-> req[r].urow.username,
                      role |-> "user", auth |-> TRUE]
            IN /\ audit' = Emit(audit, log_auth_event(r, u, "LOGIN", "SUCCESS", Strip(req[r].username)))
               /\ errlog' = errlog
               /\ req' = [req EXCEPT ![r] = Finish([@ EXCEPT !.user = u, !.login = u.id], 302)]
    /\ UNCHANGED <<users, notes, roleChanges, limiter, logfail, handlers>>

\* mutant: logout_user first, then the LOGOUT record
Logout_after(r, sid) ==
    /\ CanBegin(r)
    /\ LET u == UserGet(users, sid)
       IN /\ audit' = IF u.auth THEN Emit(audit, log_auth_event(r, Anon, "LOGOUT", "SUCCESS", u.username))
                      ELSE audit
          /\ req' = [req EXCEPT ![r] = Finish([Idle EXCEPT !.kind = "logout", !.sid = sid,
                                                          !.user = u, !.logout = TRUE], 302)]
    /\ UNCHANGED <<users, notes, errlog, roleChanges, limiter, logfail, handlers>>

\* /auth/logout : the LOGOUT record when a user is logged in, logout_user, the redirect
Logout(r, sid) ==
    /\ CanBegin(r)
    /\ LET u == UserGet(users, sid)
       IN /\ audit' = IF u.auth THEN Emit(audit, log_auth_event(r, u, "LOGOUT", "SUCCESS", u.username))
                      ELSE audit
          /\ req' = [req EXCEPT ![r] = Finish([Idle EXCEPT !.kind = "logout", !.sid = sid,
                                                          !.user = u, !.logout = TRUE], 302)]
    /\ UNCHANGED <<users, notes, errlog, roleChanges, limiter, logfail, handlers>>

(* ---------------------------- environment ------------------------------ *)
\* a role is changed in the users table by its administrator, outside the routes
SetRole(u, role) ==
    /\ roleChanges < MaxRoleChanges
    /\ u \in DOMAIN users
    /\ users[u].role # role
    /\ users' = [users EXCEPT ![u].role = role]
    /\ roleChanges' = roleChanges + 1
    /\ UNCHANGED <<notes, audit, errlog, req, limiter, logfail, handlers>>

\* the minute of an endpoint's window is over: its counter expires
Expire(ep) ==
    /\ limiter[ep].count > 0
    /\ limiter[ep].epoch < MaxEpoch
    /\ limiter' = [limiter EXCEPT ![ep] = [count |-> 0, epoch |-> @.epoch + 1,
                                           hour |-> @.hour]]
    /\ UNCHANGED <<users, notes, audit, errlog, req, roleChanges, logfail, handlers>>

\* writes to the log files start to fail (the disk is full), or work again
BreakLog ==
    /\ ~logfail
    /\ logfail' = TRUE
    /\ UNCHANGED <<users, notes, audit, errlog, req, roleChanges, limiter, handlers>>

MendLog ==
    /\ logfail
    /\ logfail' = FALSE
    /\ UNCHANGED <<users, notes, audit, errlog, req, roleChanges, limiter, handlers>>

\* create_app runs again in the process: setup_logging adds one more file handler to
\* the 'audit' and to the 'error' logger, and the new app has a Limiter of its own
CreateApp ==
    /\ handlers < MaxApps
    /\ handlers' = handlers + 1
    /\ limiter' = [e \in Endpoints |-> [limiter[e] EXCEPT !.count = 0, !.hour = 0]]
    /\ UNCHANGED <<users, notes, audit, errlog, req, roleChanges, logfail>>

\* the note ids the model's requests name: every stored one, and one that is not stored
Named == DOMAIN notes \cup {SetMax(DOMAIN notes) + 1}

\* the sessions the model's requests to the auth routes carry: none, or the first user's
AuthSessions == {0, 1}

Next ==
    \/ \E r \in Reqs : \E sid \in Sessions : BeginNotesHome(r, sid)
    \/ \E r \in Reqs : NotesHome(r)
    \/ \E r \in Reqs : \E sid \in Sessions : \E post \in BOOLEAN :
          \E form \in (IF post THEN Forms ELSE {NoForm}) : BeginCreate(r, sid, post, form)
    \/ \E r \in Reqs : CreateInsert(r)
    \/ \E r \in Reqs : CreateLog(r)
    \/ \E r \in Reqs : \E sid \in Sessions : \E n \in Named : BeginView(r, sid, n)
    \/ \E r \in Reqs : ViewCheck(r)
    \/ \E r \in Reqs : ViewDenied(r)
    \/ \E r \in Reqs : ViewRead(r)
    \/ \E r \in Reqs : \E sid \in Sessions : \E n \in Named : \E post \in BOOLEAN :
          \E form \in (IF post THEN Forms ELSE {NoForm}) : BeginEdit(r, sid, n, post, form)
    \/ \E r \in Reqs : EditCheck(r)
    \/ \E r \in Reqs : EditDenied(r)
    \/ \E r \in Reqs : EditRead(r)
    \/ \E r \in Reqs : EditCheck2(r)
    \/ \E r \in Reqs : EditUpdate(r)
    \/ \E r \in Reqs : EditLog(r)
    \/ \E r \in Reqs : \E sid \in Sessions : \E n \in Named : BeginDelete(r, sid, n)
    \/ \E r \in Reqs : DeleteCheck(r)
    \/ \E r \in Reqs : DeleteDenied(r)
    \/ \E r \in Reqs : DeleteRead(r)
    \/ \E r \in Reqs : DeleteCheck2(r)
    \/ \E r \in Reqs : DeleteDelete(r)
    \/ \E r \in Reqs : DeleteLog(r)
    \/ \E r \in Reqs : \E sid \in Sessions : BeginAdmin(r, sid)
    \/ \E r \in Reqs : AdminUsers(r)
    \/ \E r \in Reqs : AdminNotes(r)
    \/ \E r \in Reqs : \E sid \in AuthSessions : \E post \in BOOLEAN :
          \E name \in (IF post THEN Usernames ELSE {<<>>}) : BeginRegister(r, sid, post, name)
    \/ \E r \in Reqs : RegisterInsert(r)
    \/ \E r \in Reqs : RegisterLog(r)
    \/ \E r \in Reqs : \E sid \in AuthSessions : \E post \in BOOLEAN :
          \E name \in (IF post THEN LoginNames ELSE {<<>>}) :
             \E pw \in (IF post THEN Passwords ELSE {""}) : BeginLogin(r, sid, post, name, pw)
    \/ \E r \in Reqs : LoginSelect(r)
    \/ \E r \in Reqs : LoginFinish(r)
    \/ \E r \in Reqs : \E sid \in Sessions : Logout(r, sid)

Spec == Init /\ [][Next]_vars

\* the edit and delete routes, and the administrator of the users table changing roles
NextRoles ==
    \/ \E r \in Reqs : \E sid \in Sessions : \E n \in Named : \E post \in BOOLEAN :
          \E form \in (IF post THEN Forms ELSE {NoForm}) : BeginEdit(r, sid, n, post, form)
    \/ \E r \in Reqs : EditCheck(r)
    \/ \E r \in Reqs : EditDenied(r)
    \/ \E r \in Reqs : EditRead(r)
    \/ \E r \in Reqs : EditCheck2(r)
    \/ \E r \in Reqs : EditUpdate(r)
    \/ \E r \in Reqs : EditLog(r)
    \/ \E r \in Reqs : \E sid \in Sessions : \E n \in Named : BeginDelete(r, sid, n)
    \/ \E r \in Reqs : DeleteCheck(r)
    \/ \E r \in Reqs : DeleteDenied(r)
    \/ \E r \in Reqs : DeleteRead(r)
    \/ \E r \in Reqs : DeleteCheck2(r)
    \/ \E r \in Reqs : DeleteDelete(r)
    \/ \E r \in Reqs : DeleteLog(r)
    \/ \E u \in DOMAIN users : \E role \in Roles : SetRole(u, role)

SpecRoles == Init /\ [][NextRoles]_vars

(* ------------------- one client, one request after another -------------- *)
\* the stored users and notes of Init, with the request slots of one browser
InitAuth ==
    /\ users = [u \in 1..3 |->
                  [username |-> CASE u = 1 -> <<"bob">> [] u = 2 -> <<"mod">> [] OTHER -> <<"root">>,
                   password |-> <<"bcrypt", "pw">>,
                   role |-> CASE u = 1 -> "user" [] u = 2 -> "moderator" [] OTHER -> "admin"]]
    /\ notes = [n \in 1..2 |-> [title |-> <<"a">>, content |-> <<"a">>,
                                user_id |-> 1, created_at |-> 0]]
    /\ audit = <<>>
    /\ errlog = <<>>
    /\ req = [r \in SeqReqs |-> Idle]
    /\ roleChanges = 0
    /\ limiter = [e \in Endpoints |-> [count |-> 0, epoch |-> 0, hour |-> 0]]
    /\ logfail = FALSE
    /\ handlers = 1

\* the browser sends a request when the one before is answered, with the session
\* cookie that answer left
NextAuth ==
    \/ \E r \in SeqReqs : \E post \in BOOLEAN :
          \E name \in (IF post THEN Usernames ELSE {<<>>}) :
             InTurn(r) /\ BeginRegister(r, Cookie(r), post, name)
    \/ \E r \in SeqReqs : RegisterInsert(r)
    \/ \E r \in SeqReqs : RegisterLog(r)
    \/ \E r \in SeqReqs : \E post \in BOOLEAN :
          \E name \in (IF post THEN LoginNames \cup Usernames ELSE {<<>>}) :
             \E pw \in (IF post THEN Passwords ELSE {""}) :
                InTurn(r) /\ BeginLogin(r, Cookie(r), post, name, pw)
    \/ \E r \in SeqReqs : LoginSelect(r)
    \/ \E r \in SeqReqs : LoginFinish(r)
    \/ \E r \in SeqReqs : InTurn(r) /\ Logout(r, Cookie(r))
    \/ \E r \in SeqReqs : InTurn(r) /\ BeginNotesHome(r, Cookie(r))
    \/ \E r \in SeqReqs : NotesHome(r)
    \/ \E r \in SeqReqs : InTurn(r) /\ BeginAdmin(r, Cookie(r))
    \/ \E r \in SeqReqs : AdminUsers(r)
    \/ \E r \in SeqReqs : AdminNotes(r)

SpecAuth == InitAuth /\ [][NextAuth]_vars

(* ------------------- one client address, a burst of requests ------------- *)
\* the stored users and notes of Init; the client address has sent no request to
\* the auth routes in the running hour, or has sent GETs for the login and the
\* registration page (which write nothing) up to one below the default limit
InitLimit ==
    /\ users = [u \in 1..3 |->
                  [username |-> CASE u = 1 -> <<"bob">> [] u = 2 -> <<"mod">> [] OTHER -> <<"root">>,
                   password |-> <<"bcrypt", "pw">>,
                   role |-> CASE u = 1 -> "user" [] u = 2 -> "moderator" [] OTHER -> "admin"]]
    /\ notes = [n \in 1..2 |-> [title |-> <<"a">>, content |-> <<"a">>,
                                user_id |-> 1, created_at |-> 0]]
    /\ audit = <<>>
    /\ errlog = <<>>
    /\ req = [r \in BurstReqs |-> Idle]
    /\ roleChanges = 0
    /\ \E h \in {0, HourLimit - 1} :
          limiter = [e \in Endpoints |-> [count |-> 0, epoch |-> 0, hour |-> h]]
    /\ logfail = FALSE
    /\ handlers = 1

\* no request is between its first and its last step
Quiet == \A r \in DOMAIN req : req[r].pc \in {"idle", "done"}

\* the client sends its POSTs one after the other: registrations of a free name,
\* logins of a stored user with the right and with a wrong password; a minute may
\* pass between two requests
NextLimit ==
    \/ \E r \in BurstReqs : InTurn(r) /\ BeginRegister(r, Cookie(r), TRUE, <<"alice", " ">>)
    \/ \E r \in BurstReqs : RegisterInsert(r)
    \/ \E r \in BurstReqs : RegisterLog(r)
    \/ \E r \in BurstReqs : \E pw \in Passwords :
          InTurn(r) /\ BeginLogin(r, Cookie(r), TRUE, <<"bob">>, pw)
    \/ \E r \in BurstReqs : LoginSelect(r)
    \/ \E r \in BurstReqs : LoginFinish(r)
    \/ \E ep \in Endpoints : Quiet /\ Expire(ep)

SpecLimit == InitLimit /\ [][NextLimit]_vars

(* ------------------- requests while the log files cannot be written ------ *)
\* view, create, login and logout requests in flight together, and the log files'
\* disk failing and working again at any moment
NextFaults ==
    \/ \E r \in Reqs : \E sid \in Sessions : \E n \in Named : BeginView(r, sid, n)
    \/ \E r \in Reqs : ViewCheck(r)
    \/ \E r \in Reqs : ViewDenied(r)
    \/ \E r \in Reqs : ViewRead(r)
    \/ \E r \in Reqs : \E sid \in Sessions : \E post \in BOOLEAN :
          \E form \in (IF post THEN Forms ELSE {NoForm}) : BeginCreate(r, sid, post, form)
    \/ \E r \in Reqs : CreateInsert(r)
    \/ \E r \in Reqs : CreateLog(r)
    \/ \E r \in Reqs : \E sid \in AuthSessions : \E post \in BOOLEAN :
          \E pw \in (IF post THEN Passwords ELSE {""}) :
             BeginLogin(r, sid, post, IF post THEN <<"bob">> ELSE <<>>, pw)
    \/ \E r \in Reqs : LoginSelect(r)
    \/ \E r \in Reqs : LoginFinish(r)
    \/ \E r \in Reqs : \E sid \in Sessions : Logout(r, sid)
    \/ BreakLog
    \/ MendLog

SpecFaults == Init /\ [][NextFaults]_vars

(* ------------------- edits and deletes in flight together ---------------- *)
\* the stored users and notes of Init, with the slots of the requests that race
InitRace ==
    /\ users = [u \in 1..3 |->
                  [username |-> CASE u = 1 -> <<"bob">> [] u = 2 -> <<"mod">> [] OTHER -> <<"root">>,
                   password |-> <<"bcrypt", "pw">>,
                   role |-> CASE u = 1 -> "user" [] u = 2 -> "moderator" [] OTHER -> "admin"]]
    /\ notes = [n \in 1..2 |-> [title |-> <<"a">>, content |-> <<"a">>,
                                user_id |-> 1, created_at |-> 0]]
    /\ audit = <<>>
    /\ errlog = <<>>
    /\ req = [r \in RaceReqs |-> Idle]
    /\ roleChanges = 0
    /\ limiter = [e \in Endpoints |-> [count |-> 0, epoch |-> 0, hour |-> 0]]
    /\ logfail = FALSE
    /\ handlers = 1

\* POSTs to edit and requests to delete, by any session, step by step in any order
NextRace ==
    \/ \E r \in RaceReqs : \E sid \in Sessions : \E n \in Named :
          \E form \in Forms : BeginEdit(r, sid, n, TRUE, form)
    \/ \E r \in RaceReqs : EditCheck(r)
    \/ \E r \in RaceReqs : EditDenied(r)
    \/ \E r \in RaceReqs : EditRead(r)
    \/ \E r \in RaceReqs : EditCheck2(r)
    \/ \E r \in RaceReqs : EditUpdate(r)
    \/ \E r \in RaceReqs : EditLog(r)
    \/ \E r \in RaceReqs : \E sid \in Sessions : \E n \in Named : BeginDelete(r, sid, n)
    \/ \E r \in RaceReqs : DeleteCheck(r)
    \/ \E r \in RaceReqs : DeleteDenied(r)
    \/ \E r \in RaceReqs : DeleteRead(r)
    \/ \E r \in RaceReqs : DeleteCheck2(r)
    \/ \E r \in RaceReqs : DeleteDelete(r)
    \/ \E r \in RaceReqs : DeleteLog(r)

SpecRace == InitRace /\ [][NextRace]_vars

(* ------------------- the application factory runs again ------------------ *)
\* view, login and logout requests, and create_app called again at any moment
NextSetup ==
    \/ \E r \in Reqs : \E sid \in Sessions : \E n \in Named : BeginView(r, sid, n)
    \/ \E r \in Reqs : ViewCheck(r)
    \/ \E r \in Reqs : ViewDenied(r)
    \/ \E r \in Reqs : ViewRead(r)
    \/ \E r \in Reqs : \E sid \in AuthSessions : \E post \in BOOLEAN :
          \E pw \in (IF post THEN Passwords ELSE {""}) :
             BeginLogin(r, sid, post, IF post THEN <<"bob">> ELSE <<>>, pw)
    \/ \E r \in Reqs : LoginSelect(r)
    \/ \E r \in Reqs : LoginFinish(r)
    \/ \E r \in Reqs : \E sid \in Sessions : Logout(r, sid)
    \/ CreateApp

SpecSetup == Init /\ [][NextSetup]_vars

(* ======================================================================= *)
(* Properties                                                              *)
(* ======================================================================= *)
NoteRoutes == {"view_note", "edit_note", "delete_note"}

\* the request has made its first check
Checked(r) == /\ req[r].kind \in NoteRoutes
              /\ req[r].pc \notin {"idle", "view_check", "edit_check", "delete_check"}
              /\ req[r].user.auth

Owns(u, row) == row.user_id = u.id

\* the authenticated actors of a state, as load_user gives them
Actors == {UserGet(users, i) : i \in DOMAIN users}

\* the audit / error records request r has written
AuditOf(r) == {i \in 1..Len(audit) : audit[i].req = r}

ErrorsOf(r) == {i \in 1..Len(errlog) : errlog[i].req = r}

DeniedOf(r) == {i \in AuditOf(r) : audit[i].result = "DENIED"}

\* C1: for an authenticated actor and an existing note, can_view_note (and
\* with it GET /notes/view/<id>) allows the view iff the actor's role is
\* moderator or admin, or the actor owns the note; otherwise it is denied (403).
C1_ViewIff ==
    /\ \A u \in Actors : \A n \in DOMAIN notes :
          can_view_note(u, n, notes)
            <=> (u.role \in {"moderator", "admin"} \/ notes[n].user_id = u.id)
    /\ \A r \in Reqs :
          (Checked(r) /\ req[r].kind = "view_note" /\ req[r].seen1 # NoRow) =>
             /\ req[r].ok1 <=> (req[r].user.role \in {"moderator", "admin"}
                                  \/ Owns(req[r].user, req[r].seen1))
             /\ (req[r].pc = "done" /\ ~req[r].ok1) => req[r].status = 403
             /\ (req[r].pc = "done" /\ req[r].status = 200) => req[r].ok1

\* a plain user has been refused the view of a stored note of another owner
C1_Witness ==
    \E r \in Reqs :
       /\ req[r].kind = "view_note" /\ req[r].pc = "done" /\ req[r].status = 403
       /\ req[r].user.role = "user" /\ req[r].seen1 # NoRow /\ ~Owns(req[r].user, req[r].seen1)
       /\ DeniedOf(r) # {}

\* C2: for an authenticated actor and an existing note, can_edit_note (GET and
\* POST of /notes/edit/<id>) allows the edit iff the actor is admin or owns the
\* note; a moderator who does not own it is denied edit, yet allowed view and delete.
C2_EditIff ==
    /\ \A u \in Actors : \A n \in DOMAIN notes :
          /\ can_edit_note(u, n, notes) <=> (u.role = "admin" \/ notes[n].user_id = u.id)
          /\ (u.role = "moderator" /\ notes[n].user_id # u.id) =>
                /\ ~can_edit_note(u, n, notes)
                /\ can_view_note(u, n, notes)
                /\ can_delete_note(u, n, notes)
    /\ \A r \in Reqs :
          (Checked(r) /\ req[r].kind = "edit_note" /\ req[r].seen1 # NoRow) =>
             /\ req[r].ok1 <=> (req[r].user.role = "admin" \/ Owns(req[r].user, req[r].seen1))
             /\ (req[r].pc = "done" /\ ~req[r].ok1) => (req[r].status = 403 /\ ~req[r].changed)
             /\ (req[r].pc = "done" /\ req[r].status \in {200, 302}) => req[r].ok1

\* a moderator has been refused the edit of a stored note it does not own, which
\* it may view and delete
C2_Witness ==
    \E r \in Reqs :
       /\ req[r].kind = "edit_note" /\ req[r].pc = "done" /\ req[r].status = 403
       /\ req[r].user.role = "moderator" /\ req[r].seen1 # NoRow
       /\ ~Owns(req[r].user, req[r].seen1)
       /\ can_view_note(req[r].user, req[r].nid, notes)
       /\ can_delete_note(req[r].user, req[r].nid, notes)

\* C3: for an authenticated actor and an existing note, can_delete_note
\* (/notes/delete/<id>) allows the delete iff the actor is moderator or admin or
\* owns the note; a plain user who does not own it is denied and deletes nothing.
C3_DeleteIff ==
    /\ \A u \in Actors : \A n \in DOMAIN notes :
          can_delete_note(u, n, notes)
            <=> (u.role \in {"moderator", "admin"} \/ notes[n].user_id = u.id)
    /\ \A r \in Reqs :
          (Checked(r) /\ req[r].kind = "delete_note" /\ req[r].seen1 # NoRow) =>
             /\ req[r].ok1 <=> (req[r].user.role \in {"moderator", "admin"}
                                  \/ Owns(req[r].user, req[r].seen1))
             /\ (req[r].pc = "done" /\ ~req[r].ok1) => (req[r].status = 403 /\ ~req[r].changed)
             /\ (req[r].pc = "done" /\ req[r].changed) => req[r].ok1

\* a plain user has been refused the delete of another's note, which is still stored
C3_Witness ==
    \E r \in Reqs :
       /\ req[r].kind = "delete_note" /\ req[r].pc = "done" /\ req[r].status = 403
       /\ req[r].user.role = "user" /\ req[r].seen1 # NoRow /\ ~Owns(req[r].user, req[r].seen1)
       /\ req[r].nid \in DOMAIN notes

\* the request found no note under its id at any of its reads
NeverFound(r) == /\ Checked(r)
                 /\ req[r].seen1 = NoRow
                 /\ req[r].row = NoRow

\* C4: a view, edit or delete request for a note id that does not exist ends
\* in 404, never in the 403 of an authorization denial, whatever the role.
C4_MissingIs404 ==
    \A r \in Reqs :
       (req[r].pc = "done" /\ NeverFound(r)) => (req[r].status = 404 /\ req[r].status # 403)

\* C5: a view, edit or delete request for a note id that does not exist writes
\* no DENIED record to the audit stream and no '403' record to the error stream.
C5_MissingNotLogged ==
    \A r \in Reqs :
       (req[r].kind \in NoteRoutes /\ req[r].row = NoRow) =>
          /\ DeniedOf(r) = {}
          /\ {i \in ErrorsOf(r) : errlog[i].etype = "403"} = {}

\* a moderator's request for a missing note went through the denied branch and was answered
C5_Witness ==
    \E r \in Reqs : /\ req[r].pc = "done" /\ NeverFound(r)
                     /\ req[r].nid \notin DOMAIN notes
                     /\ req[r].user.role = "moderator"
                     /\ ~req[r].ok1 /\ req[r].status = 403

\* C6: every request answered 403 has written exactly one DENIED audit record
\* by the time the denial is returned.
C6_DenialLogged ==
    \A r \in Reqs :
       (req[r].pc = "done" /\ req[r].status = 403) => Cardinality(DeniedOf(r)) = 1

LogPcs == {"create_log", "edit_log", "delete_log", "register_log"}

\* the record of the change request r has made
IsChangeRecord(r, rec) ==
    /\ rec.result = "SUCCESS"
    /\ CASE req[r].kind = "create_note" ->
               rec.action = "CREATE" /\ rec.rtype = "NOTE" /\ rec.rid = <<req[r].newid>>
         [] req[r].kind = "edit_note" ->
               rec.action = "UPDATE" /\ rec.rtype = "NOTE" /\ rec.rid = <<req[r].nid>>
         [] req[r].kind = "delete_note" ->
               rec.action = "DELETE" /\ rec.rtype = "NOTE" /\ rec.rid = <<req[r].nid>>
         [] req[r].kind = "register" ->
               rec.action = "REGISTER" /\ rec.username = Strip(req[r].username)
         [] OTHER -> FALSE

\* C7: a request that changed stored state (note created, updated, deleted, user
\* registered) has written no record while its change is committed and the record
\* is still to come, and exactly one record, SUCCESS for that action and resource,
\* when its response is returned.
C7_ChangeLoggedOnce ==
    \A r \in Reqs :
       req[r].changed =>
          /\ req[r].pc \in LogPcs \cup {"done"}
          /\ req[r].pc \in LogPcs => AuditOf(r) = {}
          /\ req[r].pc = "done" =>
                /\ Cardinality(AuditOf(r)) = 1
                /\ \A i \in AuditOf(r) : IsChangeRecord(r, audit[i])

\* a delete that removed a note has answered
C7_Witness ==
    \E r \in Reqs :
       /\ req[r].kind = "delete_note" /\ req[r].pc = "done" /\ req[r].changed
       /\ req[r].nid \notin DOMAIN notes /\ req[r].status = 302

\* C8: an update or delete of a note is executed only if the check made just
\* before the write allows it on the note and on the actor's role as stored at
\* that moment (not on a role cached earlier in the request).
C8_FreshCheck ==
    \A r \in Reqs :
       (req[r].kind \in {"edit_note", "delete_note"} /\ req[r].changed) =>
          /\ req[r].seen2 # NoRow
          /\ IF req[r].kind = "edit_note"
             THEN req[r].role2 = "admin" \/ Owns(req[r].user, req[r].seen2)
             ELSE req[r].role2 \in {"moderator", "admin"} \/ Owns(req[r].user, req[r].seen2)

\* the part of C8 the code keeps: the write changes a note only if the second
\* check found the note stored
C8_NoteFresh ==
    \A r \in Reqs :
       (req[r].kind \in {"edit_note", "delete_note"} /\ req[r].changed) =>
          (req[r].ok2 /\ req[r].seen2 # NoRow)

\* what notes_home may return to current_user u over the stored notes db
DashboardOK(u, b, db) ==
    /\ \A i \in 1..Len(b) : \A j \in 1..Len(b) :
          i < j => (b[i].created_at >= b[j].created_at /\ b[i].id # b[j].id)
    /\ {b[i] : i \in 1..Len(b)} =
          IF u.role = "user"
          THEN {Row(db, n) : n \in {m \in DOMAIN db : db[m].user_id = u.id}}
          ELSE {Row(db, n) : n \in DOMAIN db}

\* C9: notes_home returns, for a plain user, exactly the stored notes that
\* user owns, and for a moderator or admin exactly all stored notes, in both
\* cases ordered by creation time, newest first.
C9_Dashboard ==
    [][\A r \in Reqs :
         (req[r].pc = "home_query" /\ req'[r].pc = "done") =>
            DashboardOK(req[r].user, req'[r].body, notes)]_vars

\* a plain user's dashboard has listed that user's two notes, the newer first, and
\* left out none
C9_Witness ==
    \E r \in Reqs :
       /\ req[r].kind = "notes_home" /\ req[r].pc = "done" /\ req[r].user.role = "user"
       /\ Len(req[r].body) = 2
       /\ req[r].body[1].created_at > req[r].body[2].created_at

\* C10: in every state and for every actor, each note the dashboard lists is
\* one can_view_note allows for that actor, and for a moderator or admin every
\* note can_view_note allows is listed.
C10_DashboardWithinView ==
    \A u \in Actors :
       /\ \A row \in DashboardRows(u, notes) : can_view_note(u, row.id, notes)
       /\ u.role \in {"moderator", "admin"} =>
             \A n \in NoteIds \cup DOMAIN notes :
                can_view_note(u, n, notes) => Row(notes, n) \in DashboardRows(u, notes)

\* a plain user has been shown a dashboard while a stored note is one that user may not view
C10_Witness ==
    \E r \in Reqs :
       /\ req[r].kind = "notes_home" /\ req[r].pc = "done" /\ req[r].user.role = "user"
       /\ req[r].body # <<>>
       /\ \E n \in DOMAIN notes :
             /\ ~can_view_note(req[r].user, n, notes)
             /\ Row(notes, n) \notin DashboardRows(req[r].user, notes)

\* C11: in every step, the stored role of every user stays as it is, and a user a
\* registration creates has role 'user'.
C11_RoleFixed ==
    [][/\ \A u \in DOMAIN users : u \in DOMAIN users' /\ users'[u].role = users[u].role
       /\ \A u \in DOMAIN users' \ DOMAIN users : users'[u].role = "user"]_vars

\* the step is request r passing from pc a to pc b
Moves(r, a, b) == req[r].pc = a /\ req'[r].pc = b

\* C12: in every step, a note that appears is the insert of a create request and
\* has as owner the authenticated user of that request, and a note that stays
\* stored keeps its owner, whoever edits it.
C12_OwnerFixed ==
    [][/\ \A n \in DOMAIN notes \cap DOMAIN notes' : notes'[n].user_id = notes[n].user_id
       /\ \A n \in DOMAIN notes' \ DOMAIN notes :
             \E r \in DOMAIN req :
                /\ Moves(r, "create_insert", "create_log")
                /\ req[r].user.auth /\ req[r].user.id = req[r].sid
                /\ notes'[n].user_id = req[r].user.id]_vars

\* an admin has edited a note of another owner, and the note still has that owner
C12_Witness ==
    \E r \in DOMAIN req :
       /\ req[r].kind = "edit_note" /\ req[r].pc = "done" /\ req[r].changed
       /\ req[r].user.role = "admin"
       /\ req[r].nid \in DOMAIN notes
       /\ notes[req[r].nid].user_id # req[r].user.id
       /\ notes[req[r].nid].user_id = req[r].seen1.user_id
       /\ notes[req[r].nid].title = Strip(req[r].form.title)

\* the routes that only read
ReadRoutes == {"view_note", "notes_home", "admin_home"}

\* C13: a step changes the stored notes only as the write of a create request, of
\* an edit request whose check before the write allowed it (title and content of
\* its note only), or of a delete request whose check allowed it (its note only);
\* it changes the stored users only as the insert of a registration.  The request
\* that steps is marked as having written; a view or dashboard request never is, and
\* neither is a request that ends in 403 or 404.
C13_Frame ==
    [][/\ notes' # notes =>
            \E r \in DOMAIN req :
               /\ req'[r].changed
               /\ \/ Moves(r, "create_insert", "create_log")
                  \/ /\ Moves(r, "edit_update", "edit_log") /\ req[r].ok1 /\ req[r].ok2
                     /\ DOMAIN notes' = DOMAIN notes
                     /\ \A n \in DOMAIN notes :
                           IF n = req[r].nid
                           THEN /\ notes'[n].user_id = notes[n].user_id
                                /\ notes'[n].created_at = notes[n].created_at
                           ELSE notes'[n] = notes[n]
                  \/ /\ Moves(r, "delete_delete", "delete_log") /\ req[r].ok1 /\ req[r].ok2
                     /\ DOMAIN notes' = DOMAIN notes \ {req[r].nid}
                     /\ \A n \in DOMAIN notes' : notes'[n] = notes[n]
       /\ users' # users =>
            \E r \in DOMAIN req : req'[r].changed /\ Moves(r, "register_insert", "register_log")
       /\ \A r \in DOMAIN req :
            /\ req'[r].kind \in ReadRoutes => ~req'[r].changed
            /\ (req'[r].pc = "done" /\ req'[r].status \in {403, 404}) => ~req'[r].changed]_vars

\* a plain user's POST to edit another's note has ended in 403 and the note is as it was
C13_Witness ==
    \E r \in DOMAIN req :
       /\ req[r].kind = "edit_note" /\ req[r].post /\ req[r].pc = "done" /\ req[r].status = 403
       /\ req[r].user.role = "user" /\ req[r].seen1 # NoRow
       /\ ~req[r].changed
       /\ req[r].nid \in DOMAIN notes /\ Row(notes, req[r].nid) = req[r].seen1

\* C15: every request answered 500 has a record in the error stream with the
\* requester's identifier and the client address.
C15_ErrorsLogged ==
    \A r \in DOMAIN req :
       (req[r].pc = "done" /\ req[r].status = 500) =>
          \E i \in 1..Len(errlog) : errlog[i].req = r /\ errlog[i].user = get_user_identifier(req[r].user)

\* C18: at the step that runs edit_note's UPDATE on a stored note, the note's title
\* and content become the submitted ones without surrounding blanks, every other
\* note stays as it is, and the dashboard query of the editor returns the note
\* with the new title.
C18_EditStored ==
    [][\A r \in DOMAIN req :
          (Moves(r, "edit_update", "edit_log") /\ req[r].nid \in DOMAIN notes) =>
             LET n == req[r].nid
             IN /\ DOMAIN notes' = DOMAIN notes
                /\ notes'[n].title = Strip(req[r].form.title)
                /\ notes'[n].content = Strip(req[r].form.content)
                /\ \A k \in DOMAIN notes \ {n} : notes'[k] = notes[k]
                /\ Row(notes', n) \in DashboardRows(req[r].user, notes')
                /\ Row(notes', n).title = Strip(req[r].form.title)]_vars

\* an edit that was typed with surrounding blanks has been answered, and the note
\* is stored without them
C18_Witness ==
    \E r \in DOMAIN req :
       /\ req[r].kind = "edit_note" /\ req[r].pc = "done" /\ req[r].status = 302
       /\ req[r].changed
       /\ req[r].form.title # Strip(req[r].form.title)
       /\ req[r].nid \in DOMAIN notes
       /\ notes[req[r].nid].title = Strip(req[r].form.title)
       /\ Row(notes, req[r].nid) \in DashboardRows(req[r].user, notes)

\* the dashboard data a request holds: the rows of users and the rows of notes
NoData(rq) == rq.ubody = {} /\ rq.body = <<>>

GoodCredentials(rq) ==
    \E u \in DOMAIN users :
       /\ users[u].username = Strip(rq.username)
       /\ CheckPw(rq.password, users[u].password)

\* C16: a login POST that the handler has answered, with a username that is not
\* stored or a password that does not verify, has established no session, has
\* left the requester's session as it was, is answered with the login form (200),
\* and has one LOGIN FAILURE record in the audit stream and one AUTH_FAILURE
\* record in the error stream.
C16_FailedLogin ==
    \A r \in DOMAIN req :
       (/\ req[r].kind = "login" /\ req[r].post /\ req[r].pc = "done"
        /\ req[r].status # 429
        /\ ~GoodCredentials(req[r])) =>
          /\ req[r].login = 0
          /\ SessionAfter(req[r]) = req[r].sid
          /\ req[r].status = 200
          /\ Cardinality({i \in 1..Len(audit) :
                            /\ audit[i].req = r /\ audit[i].action = "LOGIN"
                            /\ audit[i].result = "FAILURE"}) = 1
          /\ Cardinality({i \in 1..Len(errlog) :
                            errlog[i].req = r /\ errlog[i].etype = "AUTH_FAILURE"}) = 1

\* request q is a login POST with the username and password that the registration
\* r before it was sent with, and r was answered with the redirect
RoundTrip(r, q) ==
    /\ r < q
    /\ req[r].kind = "register" /\ req[r].post /\ req[r].pc = "done" /\ req[r].status = 302
    /\ req[q].kind = "login" /\ req[q].post /\ req[q].pc = "done" /\ req[q].status # 429
    /\ req[q].username = req[r].username /\ req[q].password = req[r].password

\* the routes of one browser's requests that load current_user when they begin
LoadsUser == {"notes_home", "admin_home", "logout"}

\* C17: a login with the username and password of a registration that succeeded
\* before it is answered with the redirect to the dashboard and a session for the
\* user that registration created; the stored username of that user is the typed
\* one without surrounding blanks, and every later request of that session that
\* loads its user is made by that user with role 'user'.
C17_RoundTrip ==
    \A r \in DOMAIN req : \A q \in DOMAIN req :
       RoundTrip(r, q) =>
          /\ req[q].status = 302
          /\ req[q].login = req[r].newid
          /\ req[q].login \in DOMAIN users
          /\ users[req[q].login].username = Strip(req[r].username)
          /\ users[req[q].login].role = "user"
          /\ \A p \in DOMAIN req :
                (p > q /\ req[p].kind \in LoadsUser /\ req[p].sid = req[q].login) =>
                   req[p].user.auth /\ req[p].user.id = req[r].newid /\ req[p].user.role = "user"

\* the round trip has been made with a username typed with a trailing blank, and a
\* dashboard request after it
RoundTripDone ==
    \E r \in DOMAIN req : \E q \in DOMAIN req : \E p \in DOMAIN req :
       /\ RoundTrip(r, q) /\ req[r].username # Strip(req[r].username)
       /\ p > q /\ req[p].kind = "notes_home" /\ req[p].pc = "done" /\ req[p].status = 200
       /\ req[p].user.id = req[r].newid

\* the POSTs to the route of request r that the client sent before r in the
\* limiter's window in which r came
EarlierPosts(r) ==
    {q \in DOMAIN req : /\ q < r /\ req[q].kind = req[r].kind /\ req[q].post
                        /\ req[q].epoch = req[r].epoch}

\* C20: a POST to login or to the registration that comes after 5, or 3, POSTs of
\* the same client to that route in the same window is answered 429; no session
\* is established and no user created, the audit stream has no record of it, and
\* the error stream has exactly one record of it, a RATE_LIMIT record.
C20_RateLimited ==
    \A r \in DOMAIN req :
       (/\ req[r].kind \in Endpoints /\ req[r].post /\ req[r].pc # "idle"
        /\ Cardinality(EarlierPosts(r)) >= Limit(req[r].kind)) =>
          /\ req[r].pc = "done" /\ req[r].status = 429
          /\ req[r].login = 0 /\ ~req[r].changed /\ req[r].newid = 0
          /\ \A i \in 1..Len(audit) : audit[i].req # r
          /\ Cardinality({i \in 1..Len(errlog) : errlog[i].req = r}) = 1
          /\ \A i \in 1..Len(errlog) : errlog[i].req = r => errlog[i].etype = "RATE_LIMIT"

\* the steps of these routes that write a record and answer, and the status each
\* answers with when the record is written
WritesRecord(rq, db) ==
    \/ rq.pc = "view_denied" /\ FetchNote(db, rq.nid) # NoRow
    \/ rq.pc = "view_read" /\ FetchNote(db, rq.nid) # NoRow
    \/ rq.pc \in {"create_log", "login_finish"}

Answer(rq, db) ==
    CASE rq.pc = "view_denied" -> 403
      [] rq.pc = "view_read" -> 200
      [] rq.pc = "create_log" -> 302
      [] rq.pc = "login_finish" -> IF rq.urow = NoUserRow THEN 200 ELSE 302
      [] OTHER -> 0

Identity(sid) == IF sid \in DOMAIN users THEN <<"uid", sid>> ELSE <<"anonymous">>

\* C21: every record of the audit stream and of the error stream has as actor the
\* identity of the session its request came with, except the LOGIN SUCCESS record,
\* whose actor is the user that request has logged in; a LOGOUT record is of a
\* request that came with a user's session and has that user's id, and a logout
\* without a session writes none.
C21_Actor ==
    /\ \A i \in 1..Len(audit) :
          LET rq == req[audit[i].req]
          IN /\ audit[i].user =
                   IF audit[i].action = "LOGIN" /\ audit[i].result = "SUCCESS"
                   THEN <<"uid", rq.login>>
                   ELSE Identity(rq.sid)
             /\ (audit[i].action = "LOGIN" /\ audit[i].result = "SUCCESS") =>
                   rq.login # 0 /\ rq.login = rq.urow.id
             /\ audit[i].action = "LOGOUT" =>
                   /\ rq.kind = "logout" /\ rq.sid \in DOMAIN users
                   /\ audit[i].user = <<"uid", rq.sid>>
    /\ \A i \in 1..Len(errlog) : errlog[i].user = Identity(req[errlog[i].req].sid)
    /\ \A r \in DOMAIN req :
          req[r].kind = "logout" =>
             Cardinality({i \in 1..Len(audit) : audit[i].req = r}) =
                (IF req[r].sid \in DOMAIN users THEN 1 ELSE 0)

\* a request that came without a session has logged a stored user in, and its LOGIN
\* SUCCESS record has the id of that user, not 'anonymous'
C21_Witness ==
    \E r \in DOMAIN req : \E i \in 1..Len(audit) :
       /\ req[r].kind = "login" /\ req[r].pc = "done" /\ req[r].sid = 0
       /\ req[r].login \in DOMAIN users
       /\ users[req[r].login].username = Strip(req[r].username)
       /\ audit[i].req = r /\ audit[i].action = "LOGIN" /\ audit[i].result = "SUCCESS"
       /\ audit[i].user = <<"uid", req[r].login>>

\* the routes whose responses can hold a note's title and content
ShowRoutes == {"notes_home", "view_note", "edit_note", "admin_home"}

\* the stored notes that u owns
Mine(u, db) == [n \in {m \in DOMAIN db : db[m].user_id = u.id} |-> db[n]]

\* every note in the response of request rq is one its requester, authenticated,
\* owns or may see as moderator or admin
Disclosed(rq) ==
    \A i \in 1..Len(rq.body) :
       /\ rq.user.auth
       /\ rq.body[i].user_id = rq.user.id \/ rq.user.role \in {"moderator", "admin"}

\* what the response of rq becomes in a step of its route, computed over db
StepOver(rq, new, db) ==
    CASE rq.pc = "home_query" ->
            /\ new.pc = "done" /\ new.status = 200
            /\ new.body \in OrderByCreatedDesc(DashboardRows(rq.user, db))
      [] rq.pc = "view_check" ->
            /\ new.pc = (IF can_view_note(rq.user, rq.nid, db) THEN "view_read" ELSE "view_denied")
            /\ new.body = <<>>
      [] rq.pc = "view_read" ->
            /\ new.pc = "done"
            /\ new.status = (IF FetchNote(db, rq.nid) = NoRow THEN 404 ELSE 200)
            /\ new.body = (IF FetchNote(db, rq.nid) = NoRow THEN <<>> ELSE <<FetchNote(db, rq.nid)>>)
      [] rq.pc = "edit_check" ->
            /\ new.pc = (IF can_edit_note(rq.user, rq.nid, db) THEN "edit_read" ELSE "edit_denied")
            /\ new.body = <<>>
      [] rq.pc = "edit_read" ->
            /\ new.pc = (IF FetchNote(db, rq.nid) = NoRow THEN "done"
                         ELSE IF rq.post THEN "edit_check2" ELSE "done")
            /\ new.status = (IF FetchNote(db, rq.nid) = NoRow THEN 404
                             ELSE IF rq.post THEN 0 ELSE 200)
            /\ new.body = (IF FetchNote(db, rq.nid) = NoRow \/ rq.post THEN <<>>
                           ELSE <<FetchNote(db, rq.nid)>>)
      [] rq.pc \in {"view_denied", "edit_denied"} ->
            new.pc = "done" /\ new.status = 403 /\ new.body = <<>>
      [] OTHER -> TRUE

C23_SuccessMeansWritten ==
    \A i \in 1..Len(audit) :
       (/\ audit[i].rtype = "NOTE" /\ audit[i].result = "SUCCESS"
        /\ audit[i].action \in {"UPDATE", "DELETE"}) =>
          req[audit[i].req].changed

\* C24: however often create_app has run, a step that writes to a stream appends
\* one record to it: one call of log_auth_event or log_crud_event is one record
\* of the audit stream, one call of log_error one record of the error stream.
C24_OneRecordPerCall ==
    [][/\ audit' # audit => Len(audit') = Len(audit) + 1
       /\ errlog' # errlog => Len(errlog') = Len(errlog) + 1]_vars

====
